---- MODULE Spec2Model ----
(***************************************************************************)
(* Model of bot.py: the offense ledger (offenses.json), the /strike,       *)
(* /offenses and /reset_offenses commands and the "Delete & Timeout (10m)" *)
(* context menu.  Every handler is a coroutine of one asyncio event loop:  *)
(* it runs without interruption between two awaits, so every action below  *)
(* is one such uninterrupted piece (or a part of one that touches no       *)
(* shared state).  The only state shared between handlers is the ledger    *)
(* file.                                                                   *)
(***************************************************************************)
EXTENDS Integers, Sequences, FiniteSets, TLC

VARIABLES
    fileKind,    \* offenses.json: "missing", "valid" (a JSON object) or "corrupt"
    data,        \* the JSON object held by a valid file: user id -> count
    modlogCfg,   \* MODLOG_CHANNEL_ID: "unset", "nonint" or "int"
    frame,       \* frame[p]: the locals and position of the handler run by slot p
    obs          \* obs[u]: the values add_offense(u) returned since u's last reset

vars == <<fileKind, data, modlogCfg, frame, obs>>

----------------------------------------------------------------------------
(* Bounds *)

\* Number of handler slots (coroutines that may be in flight together).
NumProcs == 2

\* A strike's add_offense is not started once the user's count has reached
\* MaxCount (MaxConcCount when handlers interleave).
MaxCount == 5

MaxConcCount == 2

\* Longest duration, in minutes, given to format_rule_notice on its own.
MaxNoticeMinutes == 239

Procs == 1..NumProcs

----------------------------------------------------------------------------
(* The guild: members, their top roles and permissions *)

Me == "bot"

Owner == "m4"

Members == {"m1", "m2", "m3", "m4"}

\* Position of each member's top role (discord.Role orders by position).
TopRole == [m \in Members \cup {Me} |->
              CASE m = "m1" -> 1
                [] m = "m2" -> 2
                [] m = "m3" -> 3
                [] m = "m4" -> 1
                [] OTHER    -> 3]

\* Members whose guild_permissions.moderate_members is set.
ModerateMembers == {"m1", "m3"}

\* Users that invoke commands.
Actors == {"m1", "m2"}

\* A message author that is not a discord.Member (webhook, user who left).
NonMember == "webhook"

NotesSet == {"", "spam in #general"}

\* Users whose counts are queried and reset (the members a strike can reach).
LedgerUsers == {"m1", "m2"}

Rule == "Rule 3"

\* A message link split at "/": "n" is a component int() accepts, "a" one it rejects.
\* <<>> stands for no link (None or the empty string, both falsy).
LinkSet == {<<>>, <<"n", "n">>, <<"a", "a", "n">>, <<"a", "n", "a">>, <<"a", "n", "n">>}

\* The (notes, message_link) arguments of the strikes: every link without a
\* note, every note without a link.
StrikeArgs == {<<"", link>> : link \in LinkSet} \cup {<<notes, <<>>>> : notes \in NotesSet}

\* str(e) of a platform exception; asyncio.TimeoutError() has the empty text.
ErrTexts == {"403 Forbidden", ""}

----------------------------------------------------------------------------
(* Offense ledger: load_offenses, save_offenses, add_offense, get_offenses *)

EmptyDict == [u \in {} |-> 0]

\* dict.get(str(user_id), 0)
DictGet(d, u) == IF u \in DOMAIN d THEN d[u] ELSE 0

\* data[str(user_id)] = v
DictSet(d, u, v) == [x \in (DOMAIN d) \cup {u} |-> IF x = u THEN v ELSE d[x]]

\* json.load raises on a file that is not JSON; a missing file is created as {}.
LoadRaises == fileKind = "corrupt"

load_offenses == IF fileKind = "missing" THEN EmptyDict ELSE data

\* add_offense without the read of the stored count: every strike is a first one.
add_offense_no_read(d, u) == DictSet(d, u, 1)

\* The dictionary add_offense saves: the loaded one with user_id's count + 1.
add_offense(d, u) == DictSet(d, u, DictGet(d, u) + 1)

get_offenses(u) == DictGet(load_offenses, u)

----------------------------------------------------------------------------
(* Handler frames *)

IdleFrame ==
    [pc |-> "idle", cmd |-> "", actor |-> "", target |-> "", notes |-> "",
     link |-> <<>>, deleted |-> FALSE, delete_err |-> "", offense |-> 0,
     punishment |-> "", td |-> <<>>, timed_out |-> FALSE, banned |-> FALSE,
     error |-> "", dm_ok |-> FALSE, dm_text |-> <<>>, reply |-> <<>>,
     details |-> <<>>, trace |-> <<>>]

Init ==
    /\ fileKind \in {"missing", "valid", "corrupt"}
    /\ data = EmptyDict
    /\ modlogCfg \in {"unset", "nonint", "int"}
    /\ frame = [p \in Procs |-> IdleFrame]
    /\ obs = [u \in Members |-> <<>>]

----------------------------------------------------------------------------
(* Helpers: format_rule_notice, delete_message_from_link, send_modlog *)

Set(p, f) == frame' = [frame EXCEPT ![p] = f]

\* Tenths of an hour k (2.0 to 3.9 hours) for which the float (360k + 180) / 3600,
\* a decimal tie, lies above the tie or is an exact tie with k odd, so that
\* round(x, 1) goes up.
TieRoundsUp == {23, 24, 27, 28, 29, 33, 34, 37, 38, 39}

\* round(s / 3600, 1) in tenths of an hour, for s seconds below 4 hours.
RoundTenths(s) ==
    LET k == s \div 360
        r == s % 360 IN
    IF r < 180 THEN k
    ELSE IF r > 180 THEN k + 1
    ELSE IF k \in TieRoundsUp THEN k + 1 ELSE k

\* The rendering that turns to hours at 60 minutes already.
Pretty_hours_from_60(s) ==
    LET minutes == s \div 60 IN
    IF minutes < 60
    THEN ToString(minutes) \o " minutes"
    ELSE ToString(RoundTenths(s) \div 10) \o "." \o ToString(RoundTenths(s) % 10) \o " hours"

\* Lines 87-92: whole minutes below 120 minutes, else hours with one decimal.
Pretty(s) ==
    LET minutes == s \div 60 IN
    IF minutes < 120
    THEN ToString(minutes) \o " minutes"
    ELSE ToString(RoundTenths(s) \div 10) \o "." \o ToString(RoundTenths(s) % 10) \o " hours"

format_rule_notice(rule, notes, td) ==
    (IF td # <<>>
     THEN <<"You were punished for **" \o Pretty(td[1]) \o "** due to a rule violation.">>
     ELSE <<"You received a **warning** for a rule violation.">>)
    \o <<"**Violated rule:** " \o rule>>
    \o (IF notes # "" THEN <<"**Moderator note:** " \o notes>> ELSE <<>>)
    \o <<"If you believe this was a mistake, you may reply here.">>

\* The parsing without the int() conversions: only the length is checked.
ParseErr_length_only(link) == IF Len(link) < 3 THEN "invalid link format" ELSE ""

\* What the parsing of a link raises or returns before any platform call.
ParseErr(link) ==
    IF Len(link) < 3 THEN "invalid link format"
    ELSE IF link[Len(link) - 1] # "n" \/ link[Len(link)] # "n" THEN "invalid numbers"
    ELSE ""

\* The reason the except clauses give for an exception raised by a platform call.
ExcReason(x) ==
    CASE x = "forbidden" -> "forbidden"
      [] x = "notfound"  -> "not found"
      [] OTHER           -> "unexpected error: HTTPException"

ChanOutcomes == {"ok", "nottext", "noview", "nomanage", "forbidden", "notfound", "error"}

FetchOutcomes == {"ok", "forbidden", "notfound", "error"}

DelOutcomes == {"ok", "typeerror_ok", "typeerror_err", "forbidden", "notfound", "error"}

\* delete_message_from_link: whether a message came back, the reason if not,
\* and whether the delete request reached the platform (msg.delete was called
\* with an accepted signature).  chan, fetch and del are what the channel
\* lookup, fetch_message and msg.delete do; "typeerror_*" is msg.delete(reason=)
\* raising TypeError and what the retry msg.delete() does.
delete_message_from_link(link, chan, fetch, del) ==
    IF ParseErr(link) # ""
    THEN [deleted |-> FALSE, err |-> ParseErr(link), calls |-> <<>>]
    ELSE IF chan = "nottext"
    THEN [deleted |-> FALSE, err |-> "not a text channel or thread", calls |-> <<>>]
    ELSE IF chan = "noview"
    THEN [deleted |-> FALSE, err |-> "missing permission: View Channel / Read History",
          calls |-> <<>>]
    ELSE IF chan = "nomanage"
    THEN [deleted |-> FALSE, err |-> "missing permission: Manage Messages", calls |-> <<>>]
    ELSE IF chan # "ok"
    THEN [deleted |-> FALSE, err |-> ExcReason(chan), calls |-> <<>>]
    ELSE IF fetch # "ok"
    THEN [deleted |-> FALSE, err |-> ExcReason(fetch), calls |-> <<>>]
    ELSE IF del \in {"ok", "typeerror_ok"}
    THEN [deleted |-> TRUE, err |-> "", calls |-> <<"msg.delete">>]
    ELSE IF del = "typeerror_err"
    THEN [deleted |-> FALSE, err |-> ExcReason("error"), calls |-> <<"msg.delete">>]
    ELSE [deleted |-> FALSE, err |-> ExcReason(del), calls |-> <<"msg.delete">>]

\* send_modlog: the calls it issues and whether an exception leaves it.
\* found: guild.get_channel returned a channel; sent: channel.send returned.
send_modlog(found, sent) ==
    IF modlogCfg = "unset" THEN [calls |-> <<"send_modlog">>, raised |-> FALSE]
    ELSE IF modlogCfg = "nonint" THEN [calls |-> <<"send_modlog">>, raised |-> FALSE]
    ELSE IF ~found THEN [calls |-> <<"send_modlog">>, raised |-> FALSE]
    ELSE [calls |-> <<"send_modlog", "channel.send">>, raised |-> ~sent]

\* The handler's position once send_modlog, its last statement, is over.
AfterModlog(r) == IF r.raised THEN "crashed" ELSE "done"

----------------------------------------------------------------------------
(* /strike *)

\* The hierarchy check with > for >=: a target of the bot's own rank passes.
HierarchyBlocks_strict(user) == TopRole[user] > TopRole[Me] \/ user = Owner

\* user.top_role >= me.top_role or user == interaction.guild.owner
HierarchyBlocks(user) == TopRole[user] >= TopRole[Me] \/ user = Owner

\* The strike that never looks at its message link.
Strike_no_delete(p, actor, user, notes, link) ==
    /\ frame[p].pc = "idle"
    /\ LET f == [IdleFrame EXCEPT !.cmd = "strike", !.actor = actor, !.target = user,
                                  !.notes = notes, !.link = link] IN
       IF actor \notin ModerateMembers \/ HierarchyBlocks(user)
       THEN Set(p, [f EXCEPT !.pc = "done", !.trace = <<"send_message">>,
                             !.reply = <<"Cannot moderate that user (role hierarchy).">>])
       ELSE Set(p, [f EXCEPT !.pc = "s_ledger", !.trace = <<"defer">>])
    /\ UNCHANGED <<fileKind, data, modlogCfg, obs>>

\* Lines 200-210: the two checks, then the rejection or the deferral.
Strike(p, actor, user, notes, link) ==
    /\ frame[p].pc = "idle"
    /\ LET f == [IdleFrame EXCEPT !.cmd = "strike", !.actor = actor, !.target = user,
                                  !.notes = notes, !.link = link] IN
       IF actor \notin ModerateMembers
       THEN Set(p, [f EXCEPT !.pc = "done", !.trace = <<"send_message">>,
                             !.reply = <<"You need **Timeout Members**.">>])
       ELSE IF HierarchyBlocks(user)
       THEN Set(p, [f EXCEPT !.pc = "done", !.trace = <<"send_message">>,
                             !.reply = <<"Cannot moderate that user (role hierarchy).">>])
       ELSE Set(p, [f EXCEPT !.pc = IF link # <<>> THEN "s_delete" ELSE "s_ledger",
                             !.trace = <<"defer">>])
    /\ UNCHANGED <<fileKind, data, modlogCfg, obs>>

\* Lines 214-218.
StrikeDelete(p, chan, fetch, del) ==
    /\ frame[p].pc = "s_delete"
    /\ LET r == delete_message_from_link(frame[p].link, chan, fetch, del) IN
       Set(p, [frame[p] EXCEPT !.pc = "s_ledger", !.deleted = r.deleted,
                               !.delete_err = r.err,
                               !.trace = @ \o <<"delete_message_from_link">> \o r.calls])
    /\ UNCHANGED <<fileKind, data, modlogCfg, obs>>

\* The escalation table with the ban one offense early.
Penalty_early_ban(offense) ==
    IF offense = 1 THEN [punishment |-> "Warning", td |-> <<>>]
    ELSE IF offense = 2 THEN [punishment |-> "Timeout (10m)", td |-> <<600>>]
    ELSE [punishment |-> "Ban", td |-> <<>>]

\* Lines 222-233: the penalty and the duration of an offense count.
Penalty(offense) ==
    IF offense = 1 THEN [punishment |-> "Warning", td |-> <<>>]
    ELSE IF offense = 2 THEN [punishment |-> "Timeout (10m)", td |-> <<600>>]
    ELSE IF offense = 3 THEN [punishment |-> "Timeout (1h)", td |-> <<3600>>]
    ELSE [punishment |-> "Ban", td |-> <<>>]

\* The choice of the call without the branch that passes on a warning.
PunishCall_no_warning_branch(offense, td) ==
    IF td # <<>> /\ offense \in {2, 3} THEN "timeout" ELSE "ban"

\* Lines 239-256: which platform call the strike makes.
PunishCall(offense, td) ==
    IF td = <<>> /\ offense = 1 THEN "none"
    ELSE IF td # <<>> /\ offense \in {2, 3} THEN "timeout"
    ELSE "ban"

\* add_offense with an await between its load and its save: a handler that
\* loaded before another handler's save (one that has just struck the same
\* user) computes and saves the count that handler saved.
StrikeAddOffense_racy(p, cap) ==
    /\ frame[p].pc = "s_ledger"
    /\ ~LoadRaises
    /\ DictGet(load_offenses, frame[p].target) < cap
    /\ LET u == frame[p].target
           stale == {frame[q].offense : q \in {r \in Procs : /\ r # p
                                                              /\ frame[r].cmd = "strike"
                                                              /\ frame[r].pc = "s_punish"
                                                              /\ frame[r].target = u}}
           current == IF stale # {} THEN CHOOSE c \in stale : TRUE
                      ELSE DictGet(load_offenses, u) + 1 IN
       /\ fileKind' = "valid"
       /\ data' = DictSet(load_offenses, u, current)
       /\ obs' = [obs EXCEPT ![u] = Append(@, current)]
       /\ Set(p, [frame[p] EXCEPT !.pc = "s_punish", !.offense = current,
                                  !.punishment = Penalty(current).punishment,
                                  !.td = Penalty(current).td,
                                  !.trace = @ \o <<"add_offense">>])
    /\ UNCHANGED modlogCfg

\* Line 220 and lines 222-237: add_offense runs load, increment and save with
\* no await in between; a load that raises leaves the handler.  cap bounds
\* the counts explored.
StrikeAddOffense(p, cap) ==
    /\ frame[p].pc = "s_ledger"
    /\ LoadRaises \/ DictGet(load_offenses, frame[p].target) < cap
    /\ IF LoadRaises
       THEN /\ Set(p, [frame[p] EXCEPT !.pc = "crashed", !.trace = @ \o <<"add_offense">>])
            /\ UNCHANGED <<fileKind, data, obs>>
       ELSE LET u == frame[p].target
                saved == add_offense(load_offenses, u)
                current == saved[u]
                pen == Penalty(current) IN
            /\ fileKind' = "valid"
            /\ data' = saved
            /\ obs' = [obs EXCEPT ![u] = Append(@, current)]
            /\ Set(p, [frame[p] EXCEPT !.pc = "s_punish", !.offense = current,
                                       !.punishment = pen.punishment, !.td = pen.td,
                                       !.trace = @ \o <<"add_offense">>])
    /\ UNCHANGED modlogCfg

TimeoutOutcomes == {"ok", "typeerror_ok", "typeerror_err", "err"}

\* user.timeout with the user.edit fallback on TypeError: the flag, the error
\* and the timeout request sent to the platform.
ApplyTimeout(out, text) ==
    IF out \in {"ok", "typeerror_ok"}
    THEN [ok |-> TRUE, error |-> "", calls |-> <<"timeout">>]
    ELSE [ok |-> FALSE, error |-> text, calls |-> <<"timeout">>]

\* The punishment step without its except clauses: a platform error leaves
\* the handler.
StrikePunish_uncaught(p, out, text) ==
    /\ frame[p].pc = "s_punish"
    /\ LET call == PunishCall(frame[p].offense, frame[p].td)
           t == ApplyTimeout(out, text) IN
       CASE call = "none" ->
              Set(p, [frame[p] EXCEPT !.pc = "s_dm"])
         [] call = "timeout" ->
              Set(p, [frame[p] EXCEPT !.pc = IF t.ok THEN "s_dm" ELSE "crashed",
                                      !.timed_out = t.ok, !.trace = @ \o t.calls])
         [] OTHER ->
              Set(p, [frame[p] EXCEPT !.pc = IF out = "ok" THEN "s_dm" ELSE "crashed",
                                      !.banned = (out = "ok"), !.trace = @ \o <<"ban">>])
    /\ UNCHANGED <<fileKind, data, modlogCfg, obs>>

\* The punishment step that takes the increment back when its call fails.
StrikePunish_rollback(p, out, text) ==
    /\ frame[p].pc = "s_punish"
    /\ LET call == PunishCall(frame[p].offense, frame[p].td)
           t == ApplyTimeout(out, text)
           back == DictSet(data, frame[p].target, frame[p].offense - 1) IN
       CASE call = "none" ->
              /\ Set(p, [frame[p] EXCEPT !.pc = "s_dm"])
              /\ data' = data
         [] call = "timeout" ->
              /\ Set(p, [frame[p] EXCEPT !.pc = "s_dm", !.timed_out = t.ok, !.error = t.error,
                                         !.trace = @ \o t.calls])
              /\ data' = IF t.ok THEN data ELSE back
         [] OTHER ->
              /\ Set(p, [frame[p] EXCEPT !.pc = "s_dm", !.banned = (out = "ok"),
                                         !.error = IF out = "ok" THEN "" ELSE text,
                                         !.trace = @ \o <<"ban">>])
              /\ data' = IF out = "ok" THEN data ELSE back
    /\ UNCHANGED <<fileKind, modlogCfg, obs>>

\* Lines 235-261.
StrikePunish(p, out, text) ==
    /\ frame[p].pc = "s_punish"
    /\ LET call == PunishCall(frame[p].offense, frame[p].td)
           t == ApplyTimeout(out, text) IN
       CASE call = "none" ->
              Set(p, [frame[p] EXCEPT !.pc = "s_dm"])
         [] call = "timeout" ->
              Set(p, [frame[p] EXCEPT !.pc = "s_dm", !.timed_out = t.ok, !.error = t.error,
                                      !.trace = @ \o t.calls])
         [] OTHER ->
              Set(p, [frame[p] EXCEPT !.pc = "s_dm", !.banned = (out = "ok"),
                                      !.error = IF out = "ok" THEN "" ELSE text,
                                      !.trace = @ \o <<"ban">>])
    /\ UNCHANGED <<fileKind, data, modlogCfg, obs>>

\* Lines 263-266.
StrikeDm(p, ok) ==
    /\ frame[p].pc = "s_dm"
    /\ Set(p, [frame[p] EXCEPT !.pc = "s_summary", !.dm_ok = ok,
                 !.dm_text = format_rule_notice(Rule, frame[p].notes, frame[p].td),
                 !.trace = @ \o <<"dm_user">>])
    /\ UNCHANGED <<fileKind, data, modlogCfg, obs>>

\* Lines 268-285: the lines of the summary.
StrikeSummaryLines(f) ==
    << "Offense count: **" \o ToString(f.offense) \o "**",
       "Penalty: **" \o f.punishment \o "**",
       "DM to user: " \o (IF f.dm_ok THEN "sent" ELSE "not delivered") >>
    \o (IF f.link # <<>>
        THEN IF f.deleted THEN <<"Offending message: **deleted**">>
             ELSE <<"Offending message: failed (" \o f.delete_err \o ")">>
        ELSE <<>>)
    \o (IF f.timed_out THEN <<"Timeout applied">> ELSE <<>>)
    \o (IF f.banned THEN <<"User has been **banned**">> ELSE <<>>)
    \o (IF f.error # "" THEN <<"Error: " \o f.error>> ELSE <<>>)

\* Line 287.
StrikeSummary(p) ==
    /\ frame[p].pc = "s_summary"
    /\ Set(p, [frame[p] EXCEPT !.pc = "s_modlog", !.reply = StrikeSummaryLines(frame[p]),
                               !.trace = @ \o <<"followup.send">>])
    /\ UNCHANGED <<fileKind, data, modlogCfg, obs>>

\* Lines 289-300: the fields of the audit record.
StrikeDetails(f) ==
    << <<"Offense Count", ToString(f.offense)>>, <<"Penalty", f.punishment>>,
       <<"Rule", Rule>>, <<"Notes", IF f.notes # "" THEN f.notes ELSE "None">> >>
    \o (IF f.link # <<>>
        THEN << <<"Message Deleted",
                  IF f.deleted THEN "Yes" ELSE "No (" \o f.delete_err \o ")">> >>
        ELSE <<>>)

\* Lines 289-308.
StrikeModlog(p, found, sent) ==
    /\ frame[p].pc = "s_modlog"
    /\ LET r == send_modlog(found, sent) IN
       Set(p, [frame[p] EXCEPT !.pc = AfterModlog(r), !.details = StrikeDetails(frame[p]),
                               !.trace = @ \o r.calls])
    /\ UNCHANGED <<fileKind, data, modlogCfg, obs>>

\* The handler has returned or raised: the slot takes the next interaction.
Finish(p) ==
    /\ frame[p].pc \in {"done", "crashed"}
    /\ Set(p, IdleFrame)
    /\ UNCHANGED <<fileKind, data, modlogCfg, obs>>

----------------------------------------------------------------------------
(* /offenses and /reset_offenses *)

\* Lines 320-329: the whole handler; its only await is the response.
Offenses(p, actor, user) ==
    /\ frame[p].pc = "idle"
    /\ LET f == [IdleFrame EXCEPT !.cmd = "offenses", !.actor = actor, !.target = user] IN
       IF actor \notin ModerateMembers
       THEN /\ Set(p, [f EXCEPT !.pc = "done", !.trace = <<"send_message">>,
                                !.reply = <<"You need **Timeout Members**.">>])
            /\ UNCHANGED <<fileKind, data>>
       ELSE IF LoadRaises
       THEN /\ Set(p, [f EXCEPT !.pc = "crashed", !.trace = <<"get_offenses">>])
            /\ UNCHANGED <<fileKind, data>>
       ELSE /\ Set(p, [f EXCEPT !.pc = "done", !.offense = get_offenses(user),
                                !.trace = <<"get_offenses", "send_message">>,
                                !.reply = <<"**" \o user \o "** currently has **"
                                            \o ToString(get_offenses(user))
                                            \o " offense(s)**.">>])
            /\ fileKind' = "valid"
            /\ data' = load_offenses
    /\ UNCHANGED <<modlogCfg, obs>>

\* The reset that clears every record of the file.
reset_count_all(d, u) == [x \in (DOMAIN d) \cup {u} |-> 0]

\* The reset that deletes the user's record instead of storing 0.
reset_count_forget(d, u) == [x \in (DOMAIN d) \ {u} |-> d[x]]

\* Lines 346-348: the dictionary reset_offenses saves.
reset_count(d, u) == DictSet(d, u, 0)

\* The reset without the check of the actor's capability.
ResetOffenses_unchecked(p, actor, user) ==
    /\ frame[p].pc = "idle"
    /\ LET f == [IdleFrame EXCEPT !.cmd = "reset_offenses", !.actor = actor,
                                  !.target = user] IN
       IF LoadRaises
       THEN /\ Set(p, [f EXCEPT !.pc = "crashed", !.trace = <<"load_offenses">>])
            /\ UNCHANGED <<fileKind, data, obs>>
       ELSE /\ Set(p, [f EXCEPT !.pc = "r_modlog",
                                !.trace = <<"load_offenses", "save_offenses", "send_message">>,
                                !.reply = <<"Offenses for **" \o user
                                            \o "** have been **reset to 0**.">>])
            /\ fileKind' = "valid"
            /\ data' = reset_count(load_offenses, user)
            /\ obs' = [obs EXCEPT ![user] = <<>>]
    /\ UNCHANGED modlogCfg

\* Lines 342-353: the check, the load, the store and the response.
ResetOffenses(p, actor, user) ==
    /\ frame[p].pc = "idle"
    /\ LET f == [IdleFrame EXCEPT !.cmd = "reset_offenses", !.actor = actor,
                                  !.target = user] IN
       IF actor \notin ModerateMembers
       THEN /\ Set(p, [f EXCEPT !.pc = "done", !.trace = <<"send_message">>,
                                !.reply = <<"You need **Timeout Members**.">>])
            /\ UNCHANGED <<fileKind, data, obs>>
       ELSE IF LoadRaises
       THEN /\ Set(p, [f EXCEPT !.pc = "crashed", !.trace = <<"load_offenses">>])
            /\ UNCHANGED <<fileKind, data, obs>>
       ELSE /\ Set(p, [f EXCEPT !.pc = "r_modlog",
                                !.trace = <<"load_offenses", "save_offenses", "send_message">>,
                                !.reply = <<"Offenses for **" \o user
                                            \o "** have been **reset to 0**.">>])
            /\ fileKind' = "valid"
            /\ data' = reset_count(load_offenses, user)
            /\ obs' = [obs EXCEPT ![user] = <<>>]
    /\ UNCHANGED modlogCfg

\* Lines 355-361.
ResetModlog(p, found, sent) ==
    /\ frame[p].pc = "r_modlog"
    /\ LET r == send_modlog(found, sent) IN
       Set(p, [frame[p] EXCEPT !.pc = AfterModlog(r),
                               !.details = << <<"New Count", "0">> >>,
                               !.trace = @ \o r.calls])
    /\ UNCHANGED <<fileKind, data, modlogCfg, obs>>

----------------------------------------------------------------------------
(* Context menu: Delete & Timeout (10m) *)

\* Lines 367-386.  manage and moderate are the bot's own guild permissions,
\* author is message.author.
Quick(p, actor, author, manage, moderate) ==
    /\ frame[p].pc = "idle"
    /\ LET f == [IdleFrame EXCEPT !.cmd = "quick", !.actor = actor, !.target = author] IN
       IF actor \notin ModerateMembers
       THEN Set(p, [f EXCEPT !.pc = "done", !.trace = <<"send_message">>,
                             !.reply = <<"You need **Timeout Members**.">>])
       ELSE IF ~(manage /\ moderate)
       THEN Set(p, [f EXCEPT !.pc = "done", !.trace = <<"send_message">>,
                             !.reply = <<"Missing Manage Messages/Timeout Members.">>])
       ELSE IF author \notin Members
       THEN Set(p, [f EXCEPT !.pc = "done", !.trace = <<"send_message">>,
                             !.reply = <<"User not found.">>])
       ELSE IF HierarchyBlocks(author)
       THEN Set(p, [f EXCEPT !.pc = "done", !.trace = <<"send_message">>,
                             !.reply = <<"Cannot moderate (role hierarchy).">>])
       ELSE Set(p, [f EXCEPT !.pc = "q_delete", !.trace = <<"defer">>])
    /\ UNCHANGED <<fileKind, data, modlogCfg, obs>>

QuickDelOutcomes == {"ok", "typeerror_ok", "typeerror_err", "err"}

\* Lines 388-396.
QuickDelete(p, out) ==
    /\ frame[p].pc = "q_delete"
    /\ Set(p, [frame[p] EXCEPT !.pc = "q_timeout",
                 !.deleted = (out \in {"ok", "typeerror_ok"}),
                 !.trace = @ \o <<"message.delete">>])
    /\ UNCHANGED <<fileKind, data, modlogCfg, obs>>

\* A quick action that escalates with the target's stored count.
QuickTimeout_by_count(p, out, text) ==
    /\ frame[p].pc = "q_timeout"
    /\ LET t == ApplyTimeout(out, text) IN
       Set(p, [frame[p] EXCEPT !.pc = "q_dm",
                 !.td = IF DictGet(data, frame[p].target) >= 2 THEN <<3600>> ELSE <<600>>,
                 !.timed_out = t.ok, !.error = t.error, !.trace = @ \o t.calls])
    /\ UNCHANGED <<fileKind, data, modlogCfg, obs>>

\* Lines 398-415.
QuickTimeout(p, out, text) ==
    /\ frame[p].pc = "q_timeout"
    /\ LET t == ApplyTimeout(out, text) IN
       Set(p, [frame[p] EXCEPT !.pc = "q_dm", !.td = <<600>>, !.timed_out = t.ok,
                               !.error = t.error, !.trace = @ \o t.calls])
    /\ UNCHANGED <<fileKind, data, modlogCfg, obs>>

\* Line 417.
QuickDm(p, ok) ==
    /\ frame[p].pc = "q_dm"
    /\ Set(p, [frame[p] EXCEPT !.pc = "q_summary", !.dm_ok = ok,
                 !.dm_text = format_rule_notice("Rule violation", "", frame[p].td),
                 !.trace = @ \o <<"dm_user">>])
    /\ UNCHANGED <<fileKind, data, modlogCfg, obs>>

\* Lines 419-423.
QuickSummaryLines(f) ==
    << "Message: " \o (IF f.deleted THEN "deleted" ELSE "not deleted"),
       "Timeout: " \o (IF f.timed_out THEN "applied" ELSE "failed (" \o f.error \o ")"),
       "DM to user: " \o (IF f.dm_ok THEN "sent" ELSE "not delivered") >>

\* Line 425.
QuickSummary(p) ==
    /\ frame[p].pc = "q_summary"
    /\ Set(p, [frame[p] EXCEPT !.pc = "q_modlog", !.reply = QuickSummaryLines(frame[p]),
                               !.trace = @ \o <<"followup.send">>])
    /\ UNCHANGED <<fileKind, data, modlogCfg, obs>>

\* Lines 427-437.
QuickModlog(p, found, sent) ==
    /\ frame[p].pc = "q_modlog"
    /\ LET r == send_modlog(found, sent) IN
       Set(p, [frame[p] EXCEPT !.pc = AfterModlog(r),
                 !.details = << <<"Message Deleted", IF frame[p].deleted THEN "Yes" ELSE "No">>,
                                <<"Timeout Applied", IF frame[p].timed_out THEN "Yes" ELSE "No">>,
                                <<"Rule", "Rule violation">> >>,
                 !.trace = @ \o r.calls])
    /\ UNCHANGED <<fileKind, data, modlogCfg, obs>>

----------------------------------------------------------------------------
(* Specifications *)

\* One interaction at a time, with every input and every platform outcome.
Next ==
    \E p \in {1} :
        \/ \E actor \in Actors, user \in Members, args \in StrikeArgs :
               Strike(p, actor, user, args[1], args[2])
        \/ \E chan \in ChanOutcomes, fetch \in FetchOutcomes, del \in DelOutcomes :
               StrikeDelete(p, chan, fetch, del)
        \/ StrikeAddOffense(p, MaxCount)
        \/ \E out \in TimeoutOutcomes, text \in ErrTexts : StrikePunish(p, out, text)
        \/ \E ok \in BOOLEAN : StrikeDm(p, ok)
        \/ StrikeSummary(p)
        \/ \E found \in BOOLEAN, sent \in BOOLEAN : StrikeModlog(p, found, sent)
        \/ \E actor \in Actors, user \in LedgerUsers : Offenses(p, actor, user)
        \/ \E actor \in Actors, user \in LedgerUsers : ResetOffenses(p, actor, user)
        \/ \E found \in BOOLEAN, sent \in BOOLEAN : ResetModlog(p, found, sent)
        \/ \E actor \in Actors, author \in Members \cup {NonMember},
              manage \in BOOLEAN, moderate \in BOOLEAN :
               Quick(p, actor, author, manage, moderate)
        \/ \E out \in QuickDelOutcomes : QuickDelete(p, out)
        \/ \E out \in TimeoutOutcomes, text \in ErrTexts : QuickTimeout(p, out, text)
        \/ \E ok \in BOOLEAN : QuickDm(p, ok)
        \/ QuickSummary(p)
        \/ \E found \in BOOLEAN, sent \in BOOLEAN : QuickModlog(p, found, sent)
        \/ Finish(p)

Spec == Init /\ [][Next]_vars

\* NumProcs handlers in flight together, interleaving at their awaits.  The
\* requests are those of moderator m1: the platform calls succeed, no link is
\* given and the audit log is not configured.
NextConc ==
    \E p \in Procs :
        \/ \E user \in LedgerUsers : Strike(p, "m1", user, "", <<>>)
        \/ StrikeAddOffense(p, MaxConcCount)
        \/ StrikePunish(p, "ok", "")
        \/ StrikeDm(p, TRUE)
        \/ StrikeSummary(p)
        \/ StrikeModlog(p, FALSE, TRUE)
        \/ Offenses(p, "m1", "m1")
        \/ \E user \in LedgerUsers : ResetOffenses(p, "m1", user)
        \/ ResetModlog(p, FALSE, TRUE)
        \/ Quick(p, "m1", "m2", TRUE, TRUE)
        \/ QuickDelete(p, "ok")
        \/ QuickTimeout(p, "ok", "")
        \/ QuickDm(p, TRUE)
        \/ QuickSummary(p)
        \/ QuickModlog(p, FALSE, TRUE)
        \/ Finish(p)

InitConc ==
    /\ fileKind \in {"missing", "valid"}
    /\ data = EmptyDict
    /\ modlogCfg = "unset"
    /\ frame = [p \in Procs |-> IdleFrame]
    /\ obs = [u \in Members |-> <<>>]

SpecConc == InitConc /\ [][NextConc]_vars

----------------------------------------------------------------------------
(* format_rule_notice on its own *)

\* The td argument: None, or a duration of whole minutes with 0 or 59 seconds.
NoticeDurations ==
    {<<>>} \cup {<<60 * m + x>> : m \in 0..MaxNoticeMinutes, x \in {0, 59}}

\* A call of format_rule_notice(Rule, notes, td) about to be made in slot 1.
InitNotice ==
    /\ fileKind = "valid"
    /\ data = EmptyDict
    /\ modlogCfg = "unset"
    /\ obs = [u \in Members |-> <<>>]
    /\ \E n \in NotesSet, d \in NoticeDurations :
          frame = [p \in Procs |->
                      IF p = 1
                      THEN [IdleFrame EXCEPT !.cmd = "format_rule_notice",
                                             !.notes = n, !.td = d]
                      ELSE IdleFrame]

\* Lines 84-100: the call returns the text.
FormatNotice(p) ==
    /\ frame[p].cmd = "format_rule_notice" /\ frame[p].pc = "idle"
    /\ Set(p, [frame[p] EXCEPT !.pc = "done",
                 !.dm_text = format_rule_notice(Rule, frame[p].notes, frame[p].td)])
    /\ UNCHANGED <<fileKind, data, modlogCfg, obs>>

NextNotice == \E p \in {1} : FormatNotice(p)

SpecNotice == InitNotice /\ [][NextNotice]_vars

----------------------------------------------------------------------------
(* Properties *)

\* How often call e occurs in a trace, and where it occurs first (0: nowhere).
Count(tr, e) == Cardinality({i \in 1..Len(tr) : tr[i] = e})

Pos(tr, e) ==
    IF \E i \in 1..Len(tr) : tr[i] = e
    THEN CHOOSE i \in 1..Len(tr) : tr[i] = e /\ \A j \in 1..(i - 1) : tr[j] # e
    ELSE 0

\* The handler of slot p is a strike whose add_offense has returned.
Struck(p) == frame[p].cmd = "strike" /\ frame[p].offense >= 1

\* C1: in every strike whose add_offense returned c >= 1, the penalty and the
\* duration are those of c alone: Warning without duration for 1, a timeout of
\* 10 minutes for 2, of 1 hour for 3, Ban without duration for every c >= 4.
C1_TierByCount ==
    \A p \in Procs :
        Struck(p) =>
            LET c == frame[p].offense IN
            /\ c = 1 => frame[p].punishment = "Warning" /\ frame[p].td = <<>>
            /\ c = 2 => frame[p].punishment = "Timeout (10m)" /\ frame[p].td = <<10 * 60>>
            /\ c = 3 => frame[p].punishment = "Timeout (1h)" /\ frame[p].td = <<60 * 60>>
            /\ c >= 4 => frame[p].punishment = "Ban" /\ frame[p].td = <<>>

C1_Witness ==
    \E p \in Procs : Struck(p) /\ frame[p].offense = 5 /\ frame[p].punishment = "Ban"

\* C2: with the strike handlers interleaving at their awaits, the calls of
\* add_offense for a user since the user's last reset (or the empty ledger)
\* returned 1, 2, ..., n in turn, each once, and the ledger holds n: no
\* increment is lost.
C2_NoLostIncrement ==
    \A u \in Members :
        /\ DictGet(load_offenses, u) = Len(obs[u])
        /\ \A i \in 1..Len(obs[u]) : obs[u][i] = i

C2_Witness ==
    \E p, q \in Procs :
        /\ p # q
        /\ frame[p].cmd = "strike" /\ frame[q].cmd = "strike"
        /\ frame[p].target = frame[q].target
        /\ frame[p].pc = "s_punish" /\ frame[q].pc = "s_punish"
        /\ frame[p].offense = 1 /\ frame[q].offense = 2
        /\ DictGet(load_offenses, frame[p].target) = 2

\* The platform call the penalty of count c requires was issued once.
PunishIssued(tr, c) ==
    /\ c \in {2, 3} => Count(tr, "timeout") = 1
    /\ c >= 4 => Count(tr, "ban") = 1

\* C3: past authorization (and, for a strike, past add_offense), every later
\* step is attempted whatever the earlier ones did: once the punishment step
\* is over the call of the tier was issued, once the notification step is
\* over the direct message was attempted once, and a handler that is past
\* its summary, or over, sent exactly one summary.
C3_StepsAlwaysAttempted ==
    \A p \in Procs :
        LET f == frame[p] IN
        /\ Struck(p) =>
             /\ f.pc \in {"s_punish", "s_dm", "s_summary", "s_modlog", "done", "crashed"}
             /\ f.pc # "s_punish" => PunishIssued(f.trace, f.offense)
             /\ f.pc \notin {"s_punish", "s_dm"} => Count(f.trace, "dm_user") = 1
             /\ f.pc \in {"s_modlog", "done", "crashed"} => Count(f.trace, "followup.send") = 1
        /\ (f.cmd = "quick" /\ f.trace # <<>> /\ f.trace[1] = "defer") =>
             /\ f.pc \in {"q_delete", "q_timeout", "q_dm", "q_summary", "q_modlog",
                          "done", "crashed"}
             /\ f.pc \notin {"q_delete", "q_timeout"} => Count(f.trace, "timeout") = 1
             /\ f.pc \notin {"q_delete", "q_timeout", "q_dm"} => Count(f.trace, "dm_user") = 1
             /\ f.pc \in {"q_modlog", "done", "crashed"} => Count(f.trace, "followup.send") = 1

\* A strike whose deletion, ban and direct message all failed, with its summary sent.
C3_Witness ==
    \E p \in Procs :
        /\ Struck(p) /\ frame[p].pc = "done"
        /\ frame[p].link # <<>> /\ ~frame[p].deleted
        /\ frame[p].offense = 4 /\ ~frame[p].banned /\ ~frame[p].dm_ok
        /\ Count(frame[p].trace, "followup.send") = 1

\* The request of frame f is one the authorization step has to reject.
Unauthorized(f) ==
    \/ f.actor \notin ModerateMembers
    \/ /\ f.target \in Members
       /\ TopRole[f.target] >= TopRole[Me] \/ f.target = Owner

\* C4: a strike or quick action whose actor lacks the capability, or whose
\* target fails the hierarchy check, is answered with one response and does
\* nothing else: no deletion, no timeout, no ban, no direct message, no audit
\* record, and the ledger is left as it was.
C4_RejectionHasNoSideEffect ==
    [][\A p \in Procs :
          (/\ frame[p].pc = "idle"
           /\ frame'[p].cmd \in {"strike", "quick"}
           /\ Unauthorized(frame'[p]))
          => /\ frame'[p].trace = <<"send_message">>
             /\ frame'[p].pc = "done"
             /\ Len(frame'[p].reply) = 1
             /\ UNCHANGED <<fileKind, data, obs>>]_vars

C4_Witness ==
    \E p \in Procs :
        /\ frame[p].cmd = "strike" /\ frame[p].pc = "done"
        /\ frame[p].actor \in ModerateMembers /\ frame[p].target = "m3"
        /\ frame[p].trace = <<"send_message">>

\* The request of slot p passed authorization: its handler deferred the response.
Deferred(p) == frame[p].trace # <<>> /\ frame[p].trace[1] = "defer"

\* C5: a strike or quick action passes authorization only if the target's top
\* role is strictly below the acting moderator's and the target is not the
\* guild owner.
C5_TargetBelowActor ==
    \A p \in Procs :
        (frame[p].cmd \in {"strike", "quick"} /\ Deferred(p))
        => /\ TopRole[frame[p].target] < TopRole[frame[p].actor]
           /\ frame[p].target # Owner

\* C6: a strike whose ledger access raised still sends the moderator a
\* summary, and issues no timeout, no ban and no direct message.
C6_LedgerFailureReported ==
    \A p \in Procs :
        (/\ frame[p].cmd = "strike" /\ frame[p].pc = "crashed"
         /\ frame[p].trace[Len(frame[p].trace)] = "add_offense")
        => /\ Count(frame[p].trace, "followup.send") = 1
           /\ Count(frame[p].trace, "timeout") = 0
           /\ Count(frame[p].trace, "ban") = 0
           /\ Count(frame[p].trace, "dm_user") = 0

\* The steps of a strike, in the order of the orchestrator's state machine.
StrikeOrder ==
    <<"defer", "delete_message_from_link", "add_offense", "punish", "dm_user",
      "followup.send", "send_modlog">>

\* A strike's trace with the timeout or ban call named "punish" and the calls
\* made inside a step (msg.delete, channel.send) left out.
Steps(tr) ==
    LET F[i \in 0..Len(tr)] ==
            IF i = 0 THEN <<>>
            ELSE IF tr[i] \in {"timeout", "ban"} THEN Append(F[i - 1], "punish")
            ELSE IF tr[i] \in {"msg.delete", "channel.send"} THEN F[i - 1]
            ELSE Append(F[i - 1], tr[i]) IN
    F[Len(tr)]

\* C7: the steps of a strike happen in one order, none twice: the deletion
\* attempt (when a link is given) before add_offense, add_offense before the
\* timeout or ban call, that call before the direct message, the direct
\* message before the summary and the audit record; the delete request is
\* sent inside the deletion step and the audit post inside the last one.
C7_FixedOrder ==
    \A p \in Procs :
        (frame[p].cmd = "strike" /\ Deferred(p)) =>
            LET tr == frame[p].trace
                st == Steps(tr) IN
            /\ \A i, j \in 1..Len(st) : i < j => Pos(StrikeOrder, st[i]) < Pos(StrikeOrder, st[j])
            /\ \A i \in 1..Len(st) : Pos(StrikeOrder, st[i]) > 0
            /\ (frame[p].link # <<>> /\ Count(st, "add_offense") = 1)
                   => Count(st, "delete_message_from_link") = 1
            /\ (frame[p].offense >= 2 /\ Count(st, "dm_user") = 1) => Count(st, "punish") = 1
            /\ Count(st, "send_modlog") = 1 => Count(st, "dm_user") = 1
            /\ Count(tr, "msg.delete") = 1
                   => /\ Pos(tr, "msg.delete") = Pos(tr, "delete_message_from_link") + 1
                      /\ Count(st, "delete_message_from_link") = 1
            /\ Count(tr, "channel.send") = 1
                   => Pos(tr, "channel.send") = Pos(tr, "send_modlog") + 1
            /\ Count(tr, "msg.delete") <= 1 /\ Count(tr, "channel.send") <= 1

C7_Witness ==
    \E p \in Procs :
        /\ frame[p].pc = "done"
        /\ frame[p].trace = <<"defer", "delete_message_from_link", "msg.delete", "add_offense",
                              "ban", "dm_user", "followup.send", "send_modlog", "channel.send">>

\* C8: no failure of the audit log leaves send_modlog: a handler that called
\* send_modlog ends normally.
C8_ModlogFailureSwallowed ==
    \A p \in Procs : Count(frame[p].trace, "send_modlog") = 1 => frame[p].pc # "crashed"

\* A link with fewer than three components or whose last two are not integers.
Malformed(link) ==
    /\ link # <<>>
    /\ \/ Len(link) < 3
       \/ link[Len(link)] # "n"
       \/ link[Len(link) - 1] # "n"

\* C9: a strike with a malformed link records a failed deletion with the
\* malformed-link reason and sends no delete request; the request goes on:
\* unless the ledger itself cannot be read, add_offense is called and returns,
\* the call of the resulting penalty is issued, the direct message is
\* attempted and the summary names the failed deletion.
C9_MalformedLinkDoesNotAbort ==
    \A p \in Procs :
        LET f == frame[p] IN
        (f.cmd = "strike" /\ Deferred(p) /\ Malformed(f.link) /\ f.pc # "s_delete") =>
            /\ ~f.deleted
            /\ f.delete_err \in {"invalid link format", "invalid numbers"}
            /\ Count(f.trace, "delete_message_from_link") = 1
            /\ Count(f.trace, "msg.delete") = 0
            /\ (f.pc = "crashed" /\ Count(f.trace, "send_modlog") = 0) => LoadRaises
            /\ (f.pc # "s_ledger" /\ ~LoadRaises) =>
                 /\ f.offense >= 1 /\ Count(f.trace, "add_offense") = 1
                 /\ f.pc # "s_punish" => PunishIssued(f.trace, f.offense)
                 /\ f.pc \notin {"s_punish", "s_dm"} => Count(f.trace, "dm_user") = 1
                 /\ f.pc \notin {"s_punish", "s_dm", "s_summary"} =>
                      \E i \in 1..Len(f.reply) :
                          f.reply[i] = "Offending message: failed (" \o f.delete_err \o ")"

C9_Witness ==
    \E p \in Procs :
        /\ frame[p].cmd = "strike" /\ frame[p].pc = "done"
        /\ frame[p].link = <<"a", "n", "a">> /\ frame[p].delete_err = "invalid numbers"
        /\ frame[p].offense = 2 /\ frame[p].timed_out /\ frame[p].dm_ok

\* Slot p takes the add_offense step of an authorized strike.
StrikesNow(p) ==
    /\ frame[p].cmd = "strike" /\ frame[p].actor \in ModerateMembers
    /\ frame[p].pc = "s_ledger" /\ frame'[p].pc = "s_punish"

\* Slot p takes the store step of an authorized reset.
ResetsNow(p) ==
    /\ frame[p].pc = "idle"
    /\ frame'[p].cmd = "reset_offenses" /\ frame'[p].actor \in ModerateMembers
    /\ frame'[p].pc = "r_modlog"

\* C10: under every interleaving of strikes, queries, resets and quick
\* actions each user's count is a natural number that changes only by going
\* up by 1 in the add_offense of an authorized strike against that user or
\* by being set to 0 in an authorized reset of that user; such a strike does
\* raise it by 1 and such a reset does leave it 0.
C10_CountChangesOnlyByStrikeOrReset ==
    [][/\ \A p \in Procs :
             /\ StrikesNow(p) => DictGet(load_offenses', frame[p].target)
                                   = DictGet(load_offenses, frame[p].target) + 1
             /\ ResetsNow(p) => DictGet(load_offenses', frame'[p].target) = 0
       /\ \/ load_offenses' = load_offenses
          \/ \A u \in Members :
                LET before == DictGet(load_offenses, u)
                    after  == DictGet(load_offenses', u) IN
                /\ after \in Nat
                /\ after # before =>
                      \/ \E p \in Procs : /\ StrikesNow(p) /\ frame[p].target = u
                                          /\ after = before + 1
                      \/ \E p \in Procs : /\ ResetsNow(p) /\ frame'[p].target = u
                                          /\ after = 0]_vars

\* Two strikes against m1 in flight, m1's count at 2, while m2's count was
\* reset to 0 and is still 0.
C10_Witness ==
    /\ DictGet(load_offenses, "m1") = 2
    /\ "m2" \in DOMAIN data /\ data["m2"] = 0
    /\ \E p, q \in Procs : /\ p # q
                          /\ frame[p].cmd = "strike" /\ frame[p].target = "m1"
                          /\ frame[q].cmd = "strike" /\ frame[q].target = "m1"
                          /\ frame[p].offense = 1 /\ frame[q].offense = 2

\* The penalty of the k-th strike in a row against one user.
TierOfStrike(k) ==
    IF k = 1 THEN "Warning"
    ELSE IF k = 2 THEN "Timeout (10m)"
    ELSE IF k = 3 THEN "Timeout (1h)"
    ELSE "Ban"

\* C11: authorized strikes against one user, handled one after the other from
\* no record (or from a reset) with no reset in between, are punished in the
\* order Warning, 10-minute timeout, 1-hour timeout, Ban, and Ban for every
\* further one: the k-th such strike gets count k and the k-th penalty, and
\* its punishment step issues that penalty's call and no other.
C11_EscalationSequence ==
    [][\A p \in Procs :
          /\ StrikesNow(p) =>
               LET u == frame[p].target
                   k == Len(obs[u]) + 1 IN
               /\ Len(obs'[u]) = k
               /\ frame'[p].offense = k
               /\ frame'[p].punishment = TierOfStrike(k)
          /\ (frame[p].cmd = "strike" /\ frame[p].pc = "s_punish" /\ frame'[p].pc = "s_dm") =>
               LET k  == Len(obs[frame[p].target])
                   tr == frame'[p].trace IN
               /\ k = 1 => Count(tr, "timeout") = 0 /\ Count(tr, "ban") = 0
               /\ k = 2 => Count(tr, "timeout") = 1 /\ Count(tr, "ban") = 0
                           /\ frame[p].td = <<600>>
               /\ k = 3 => Count(tr, "timeout") = 1 /\ Count(tr, "ban") = 0
                           /\ frame[p].td = <<3600>>
               /\ k >= 4 => Count(tr, "timeout") = 0 /\ Count(tr, "ban") = 1]_vars

\* The fifth strike in a row against m1 banned m1 again.
C11_Witness ==
    /\ obs["m1"] = <<1, 2, 3, 4, 5>>
    /\ \E p \in Procs : /\ frame[p].cmd = "strike" /\ frame[p].target = "m1"
                        /\ frame[p].pc = "done"
                        /\ frame[p].punishment = "Ban" /\ frame[p].banned

\* Slot p takes a step of a quick action.
QuickStep(p) ==
    /\ frame'[p] # frame[p]
    /\ frame[p].cmd = "quick" \/ frame'[p].cmd = "quick"

\* C12: no step of a quick action reads or writes the ledger, so every
\* user's count, and the ledger file itself, is after the action what it was
\* before; its timeout step requests a timeout of exactly 10 minutes, and
\* never a ban, whatever the target's count is.
C12_QuickFixedTimeoutNoLedger ==
    [][\A p \in Procs :
          QuickStep(p) =>
              /\ UNCHANGED <<fileKind, data, obs>>
              /\ \A e \in {"add_offense", "get_offenses", "load_offenses", "save_offenses"} :
                     Count(frame'[p].trace, e) = 0
              /\ Count(frame'[p].trace, "ban") = 0
              /\ frame[p].pc = "q_timeout" =>
                     /\ frame'[p].td = <<10 * 60>>
                     /\ Count(frame'[p].trace, "timeout") = 1]_vars

\* A quick action timed m2 out for 10 minutes while m2's count stood at 4.
C12_Witness ==
    \E p \in Procs :
        /\ frame[p].cmd = "quick" /\ frame[p].pc = "done" /\ frame[p].target = "m2"
        /\ frame[p].timed_out /\ frame[p].td = <<600>>
        /\ DictGet(load_offenses, "m2") = 4

\* C13: a read of the ledger never fails: a query that called get_offenses
\* ends with its answer and a strike that called add_offense has its count;
\* over a missing or corrupted ledger file both behave as over the empty
\* ledger, the query answering 0 and the strike counting 1.
C13_LedgerReadNeverFails ==
    \A p \in Procs :
        LET f == frame[p] IN
        /\ (f.cmd = "offenses" /\ Count(f.trace, "get_offenses") = 1) =>
               /\ f.pc = "done"
               /\ Count(f.trace, "send_message") = 1
        /\ (f.cmd = "strike" /\ Count(f.trace, "add_offense") = 1) =>
               /\ f.offense >= 1
               /\ fileKind = "corrupt" => f.offense = 1

\* The summary rep has the line ln.
Has(rep, ln) == \E i \in 1..Len(rep) : rep[i] = ln

\* C14: the summary of every strike and quick action that got to its summary
\* is accurate and itemized.  It says for the deletion (when one was
\* attempted), the punishment (when the tier has one) and the direct message
\* whether the step succeeded; it says that a timeout or ban was applied only
\* if that call succeeded; and for a failed deletion and a failed timeout or
\* ban it gives the reason of the failure, a text that is not empty.
C14_SummaryItemizedWithReasons ==
    \A p \in Procs :
        LET f == frame[p] IN
        /\ (Struck(p) /\ f.reply # <<>>) =>
             LET failed == /\ Count(f.trace, "timeout") + Count(f.trace, "ban") = 1
                           /\ ~f.timed_out /\ ~f.banned IN
             /\ Has(f.reply, "DM to user: sent") <=> f.dm_ok
             /\ Has(f.reply, "DM to user: not delivered") <=> ~f.dm_ok
             /\ Has(f.reply, "Timeout applied") <=> f.timed_out
             /\ Has(f.reply, "User has been **banned**") <=> f.banned
             /\ f.timed_out => Count(f.trace, "timeout") = 1
             /\ f.banned => Count(f.trace, "ban") = 1
             /\ (f.link # <<>> /\ f.deleted) => Has(f.reply, "Offending message: **deleted**")
             /\ (f.link # <<>> /\ ~f.deleted) =>
                    /\ f.delete_err # ""
                    /\ Has(f.reply, "Offending message: failed (" \o f.delete_err \o ")")
             /\ failed => /\ f.error # ""
                          /\ Has(f.reply, "Error: " \o f.error)
        /\ (f.cmd = "quick" /\ f.reply # <<>> /\ Count(f.trace, "followup.send") = 1) =>
             /\ Has(f.reply, "DM to user: sent") <=> f.dm_ok
             /\ Has(f.reply, "DM to user: not delivered") <=> ~f.dm_ok
             /\ Has(f.reply, "Timeout: applied") <=> f.timed_out
             /\ Has(f.reply, "Message: deleted") <=> f.deleted
             /\ ~f.timed_out => /\ f.error # ""
                                /\ Has(f.reply, "Timeout: failed (" \o f.error \o ")")
             /\ ~f.deleted => ~Has(f.reply, "Message: not deleted")

\* C15: an authorized reset of user u stores 0 for u whatever u's count was,
\* no record included: afterwards the file is a valid ledger in which u has a
\* record, the record holds 0 and get_offenses(u) is 0; no other user's
\* record or count changes; and a reset of a user whose record already holds
\* 0, as after a reset just before, leaves the ledger as it was.
C15_ResetIdempotent ==
    [][\A p \in Procs :
          ResetsNow(p) =>
              LET u == frame'[p].target IN
              /\ fileKind' = "valid"
              /\ u \in DOMAIN data' /\ data'[u] = 0
              /\ DictGet(load_offenses', u) = 0
              /\ \A v \in Members \ {u} :
                     /\ v \in DOMAIN data' <=> v \in DOMAIN load_offenses
                     /\ DictGet(load_offenses', v) = DictGet(load_offenses, v)
              /\ (u \in DOMAIN load_offenses /\ load_offenses[u] = 0)
                     => data' = load_offenses]_vars

\* A reset of m1 stored: m1's record is there with 0 and m2's count is
\* still 3.
C15_Witness ==
    /\ "m1" \in DOMAIN data /\ data["m1"] = 0
    /\ DictGet(load_offenses, "m2") = 3
    /\ \E p \in Procs :
          /\ frame[p].cmd = "reset_offenses" /\ frame[p].target = "m1"
          /\ frame[p].actor \in ModerateMembers
          /\ frame[p].pc = "r_modlog"

\* The first line of a notice for a punishment that lasted `pretty`.
TimedLine(pretty) == "You were punished for **" \o pretty \o "** due to a rule violation."

\* C16: format_rule_notice gives the non-timed wording exactly when no
\* duration is given; a duration below 120 minutes is rendered as its whole
\* minutes ("90 minutes" for 90 minutes), one of 120 minutes or more as hours
\* with one decimal, the tenth of an hour nearest to it ("2.5 hours" for 150
\* minutes).
C16_DurationRendering ==
    \A p \in Procs :
        (frame[p].cmd = "format_rule_notice" /\ frame[p].pc = "done") =>
            LET td    == frame[p].td
                first == frame[p].dm_text[1] IN
            /\ td = <<>> <=> first = "You received a **warning** for a rule violation."
            /\ td # <<>> =>
                 LET sec == td[1]
                     m   == sec \div 60 IN
                 /\ m < 120 => first = TimedLine(ToString(m) \o " minutes")
                 /\ m >= 120 =>
                      \E t \in (sec \div 360)..(sec \div 360 + 1) :
                          /\ 360 * t - sec <= 180 /\ sec - 360 * t <= 180
                          /\ first = TimedLine(ToString(t \div 10) \o "."
                                                 \o ToString(t % 10) \o " hours")
                 /\ sec = 90 * 60 => first = TimedLine("90 minutes")
                 /\ sec = 150 * 60 => first = TimedLine("2.5 hours")

\* The notice for 150 minutes was produced and reads 2.5 hours.
C16_Witness ==
    \E p \in Procs :
        /\ frame[p].cmd = "format_rule_notice" /\ frame[p].pc = "done"
        /\ frame[p].td = <<9000>>
        /\ frame[p].dm_text[1] = TimedLine("2.5 hours")

\* The notice a first strike (Warning) sends for the rule and the note.
WarningNotice(notes) == format_rule_notice(Rule, notes, Penalty(1).td)

\* C17: the notice tells the tier: the text sent for a Ban (count 4 or more)
\* differs from the text sent for a Warning with the same rule and note, and
\* neither the Ban's nor the Warning's text is that of a timed punishment.
C17_NoticeIdentifiesTier ==
    \A p \in Procs :
        LET f == frame[p] IN
        (Struck(p) /\ f.dm_text # <<>>) =>
            /\ (f.offense = 1 \/ f.offense >= 4) =>
                   \A pretty \in {"10 minutes", "60 minutes"} :
                       f.dm_text[1] # TimedLine(pretty)
            /\ f.offense >= 4 => f.dm_text # WarningNotice(f.notes)

\* C18: the increment of a strike is not taken back.  With the requests
\* handled one after the other, from the return of add_offense to the end of
\* the strike the ledger holds for the target the count add_offense returned,
\* one more than before, whether the deletion, the timeout or ban, the direct
\* message and the audit post succeed or fail; it is the count the next
\* strike adds to.
C18_IncrementNotRolledBack ==
    \A p \in Procs :
        Struck(p) =>
            LET u == frame[p].target IN
            /\ fileKind = "valid"
            /\ u \in DOMAIN data /\ data[u] = frame[p].offense
            /\ Len(obs[u]) = frame[p].offense
            /\ obs[u][Len(obs[u])] = frame[p].offense

\* A third strike against m2 whose timeout call failed, with the direct
\* message undelivered, over; m2's count is 3.
C18_Witness ==
    \E p \in Procs :
        /\ Struck(p) /\ frame[p].pc = "done" /\ frame[p].target = "m2"
        /\ frame[p].offense = 3 /\ Count(frame[p].trace, "timeout") = 1
        /\ ~frame[p].timed_out /\ ~frame[p].dm_ok
        /\ data["m2"] = 3

\* C19: a strike issues at most one platform punishment, the one of its
\* tier: a Warning neither a timeout nor a ban, a timeout tier one timeout
\* call at most and no ban, the Ban tier one ban call at most and no timeout;
\* timed_out and banned are never both true, each is true only after its own
\* call, and a recorded error means that neither is.
C19_OnePunishmentPerStrike ==
    \A p \in Procs :
        LET f  == frame[p]
            nt == Count(f.trace, "timeout")
            nb == Count(f.trace, "ban") IN
        f.cmd = "strike" =>
            /\ nt + nb <= 1
            /\ f.punishment = "Warning" => nt = 0 /\ nb = 0
            /\ f.punishment \in {"Timeout (10m)", "Timeout (1h)"} => nb = 0
            /\ f.punishment = "Ban" => nt = 0
            /\ f.offense = 0 => nt = 0 /\ nb = 0
            /\ ~(f.timed_out /\ f.banned)
            /\ f.timed_out => nt = 1
            /\ f.banned => nb = 1
            /\ f.error # "" => ~f.timed_out /\ ~f.banned /\ nt + nb = 1

\* A Ban-tier strike whose ban call failed with a recorded error, over.
C19_Witness ==
    \E p \in Procs :
        /\ frame[p].cmd = "strike" /\ frame[p].pc = "done"
        /\ frame[p].punishment = "Ban" /\ Count(frame[p].trace, "ban") = 1
        /\ frame[p].error = "403 Forbidden"
        /\ ~frame[p].banned /\ ~frame[p].timed_out

\* C20: a reset or a query whose actor lacks the moderation capability is
\* answered with one response and nothing else: the ledger file and every
\* count stay as they were and no audit record is posted; and no query,
\* whoever sends it, changes any user's count.
C20_ResetAndQueryPrivileged ==
    [][\A p \in Procs :
          /\ (/\ frame[p].pc = "idle"
              /\ frame'[p].cmd \in {"reset_offenses", "offenses"}
              /\ frame'[p].actor \notin ModerateMembers)
             => /\ UNCHANGED <<fileKind, data, obs>>
                /\ frame'[p].pc = "done"
                /\ frame'[p].trace = <<"send_message">>
                /\ frame'[p].details = <<>>
          /\ (/\ frame'[p] # frame[p]
              /\ frame[p].cmd = "offenses" \/ frame'[p].cmd = "offenses")
             => /\ \A u \in Members :
                      DictGet(load_offenses', u) = DictGet(load_offenses, u)
                /\ obs' = obs]_vars

\* The reset of m1 asked by m2, who lacks the capability, was rejected; m1's
\* count is still 3.
C20_Witness ==
    /\ DictGet(load_offenses, "m1") = 3
    /\ \E p \in Procs :
          /\ frame[p].cmd = "reset_offenses" /\ frame[p].actor = "m2"
          /\ frame[p].target = "m1" /\ frame[p].pc = "done"
          /\ frame[p].trace = <<"send_message">>

====
